---- MODULE Spec2Model ----
(***************************************************************************)
(* Model of the munir worker-coordination layer.                           *)
(*                                                                         *)
(*  - OdinData._send_receive over a MonitoredIpcChannel                    *)
(*    (src/src/munir/odin_data_util.py, monitored_ipc_channel.py):         *)
(*    specification Spec.                                                  *)
(*  - MunirFpController, the execute trigger and the periodic status poll  *)
(*    (src/src/munir/fp_controller.py, adapter.py): specification FpSpec.  *)
(***************************************************************************)
EXTENDS Integers, Sequences, FiniteSets, TLC

(***************************************************************************)
(* Bounds of the model.                                                    *)
(***************************************************************************)
\* number of _send_receive calls explored on one OdinData instance
MaxCalls == 3
\* number of responses the client's socket can hold unread
MaxSock == 2
\* ctrl_timeout, in clock ticks of the model
Timeout == 2

(***************************************************************************)
(* OdinData / MonitoredIpcChannel state.                                   *)
(***************************************************************************)
VARIABLES
    connection_status,  \* MonitoredIpcChannel.connection_status
    msg_id,             \* OdinData.msg_id
    sock,               \* responses delivered to the DEALER socket, unread
    pending,            \* ids of requests the worker has not answered yet
    pc,                 \* "idle", or "poll": blocked in the receive loop
    waited,             \* ticks the current channel.poll() has waited
    elapsed,            \* ticks since the last send (saturates above Timeout)
    result,             \* value returned by the last _send_receive call
    outcome,            \* which return statement ended the last call
    ncalls,             \* number of _send_receive calls made
    sent,               \* ids of the messages handed to channel.send, in order
    polls,              \* number of channel.poll calls made
    recvs,              \* number of channel.recv calls made
    consumed,           \* responses received by the current/last call, in order
    match_in_time,      \* a valid response to the last request reached the
                        \* socket no later than Timeout ticks after its send
    last_event          \* the monitor event handled last, "none" before any

cvars == <<connection_status, msg_id, sock, pending, pc, waited, elapsed,
           result, outcome, ncalls, sent, polls, recvs, consumed,
           match_in_time, last_event>>

\* IpcMessage.ACK / NACK
MsgTypes == {"ack", "nack"}

\* A response as decoded by IpcMessage(from_str=...): is_valid(), attrs
Message(v, i, t) == [valid |-> v, id |-> i, msg_type |-> t]

\* the empty dict {} returned on every failure path
Empty == [valid |-> FALSE, id |-> 0, msg_type |-> "none"]

Min(a, b) == IF a < b THEN a ELSE b

\* MonitoredIpcChannel._handle_monitor_event: the new value of
\* connection_status after one event read from the monitor socket
_handle_monitor_event_accept_only(event, cur) ==
    IF event = "accepted" THEN TRUE ELSE cur
_handle_monitor_event(event, cur) ==
    IF event = "accepted" THEN TRUE
    ELSE IF event = "disconnected" THEN FALSE
    ELSE cur

\* MonitoredIpcChannel.check_connection
check_connection_always == TRUE
check_connection == connection_status

\* The body of the receive loop: what is done with one received response.
\*   "return" : return response.attrs
\*   "drop"   : log a warning, poll again
\*   "fail"   : log an error, return {}
ProcessResponse_no_id_check(response, last_id) ==
    IF response.valid THEN "return" ELSE "fail"
ProcessResponse_skip_invalid(response, last_id) ==
    IF response.valid
    THEN IF response.id = last_id THEN "return" ELSE "drop"
    ELSE "drop"
ProcessResponse(response, last_id) ==
    IF response.valid
    THEN IF response.id = last_id THEN "return" ELSE "drop"
    ELSE "fail"

\* _send_receive, line 53: the id of the next message
next_msg_id_reused(i) == i
next_msg_id(i) == i + 1

\* The timeout handed to a channel.poll() that starts after a response was
\* dropped: the full ctrl_timeout again, whatever time has passed since the
\* send.
PollStart(w) == 0

CInit ==
    /\ connection_status = FALSE
    /\ msg_id = 0
    /\ sock = <<>>
    /\ pending = {}
    /\ pc = "idle"
    /\ waited = 0
    /\ elapsed = 0
    /\ result = Empty
    /\ outcome = "none"
    /\ ncalls = 0
    /\ sent = <<>>
    /\ polls = 0
    /\ recvs = 0
    /\ consumed = <<>>
    /\ match_in_time = FALSE
    /\ last_event = "none"

\* _handle_monitor_event, EVENT_ACCEPTED. A callback of the IOLoop: it runs
\* only while no _send_receive call blocks the loop.
MonitorAccepted ==
    /\ pc = "idle"
    /\ connection_status' = _handle_monitor_event("accepted", connection_status)
    /\ last_event' = "accepted"
    /\ UNCHANGED <<msg_id, sock, pending, pc, waited, elapsed, result, outcome,
                   ncalls, sent, polls, recvs, consumed, match_in_time>>

\* _handle_monitor_event, EVENT_DISCONNECTED
MonitorDisconnected ==
    /\ pc = "idle"
    /\ connection_status' =
          _handle_monitor_event("disconnected", connection_status)
    /\ last_event' = "disconnected"
    /\ UNCHANGED <<msg_id, sock, pending, pc, waited, elapsed, result, outcome,
                   ncalls, sent, polls, recvs, consumed, match_in_time>>

\* _send_receive, lines 47-50: the channel is not connected
SendReceiveDisconnected ==
    /\ pc = "idle"
    /\ ncalls < MaxCalls
    /\ ~check_connection
    /\ ncalls' = ncalls + 1
    /\ result' = Empty
    /\ outcome' = "disconnected"
    /\ consumed' = <<>>
    /\ match_in_time' = FALSE
    /\ UNCHANGED <<last_event, connection_status,
                   msg_id, sock, pending, pc, waited,
                   elapsed, sent, polls, recvs>>

\* _send_receive, lines 52-57: build the message and send it
SendRequest ==
    /\ pc = "idle"
    /\ ncalls < MaxCalls
    /\ check_connection
    /\ ncalls' = ncalls + 1
    /\ msg_id' = next_msg_id(msg_id)
    /\ sent' = Append(sent, msg_id')
    /\ pending' = pending \cup {msg_id'}
    /\ pc' = "poll"
    /\ waited' = 0
    /\ elapsed' = 0
    /\ outcome' = "pending"
    /\ consumed' = <<>>
    /\ match_in_time' = FALSE
    /\ UNCHANGED <<last_event, connection_status, sock, result, polls, recvs>>

\* _send_receive, lines 60-71: poll() reports POLLIN, one response is
\* received and processed
PollIn ==
    /\ pc = "poll"
    /\ sock # <<>>
    /\ polls' = polls + 1
    /\ recvs' = recvs + 1
    /\ sock' = Tail(sock)
    /\ consumed' = Append(consumed, Head(sock))
    /\ LET todo == ProcessResponse(Head(sock), msg_id) IN
         CASE todo = "return" ->
                /\ result' = Head(sock)
                /\ outcome' = "match"
                /\ pc' = "idle"
                /\ UNCHANGED waited
           [] todo = "fail" ->
                /\ result' = Empty
                /\ outcome' = "invalid"
                /\ pc' = "idle"
                /\ UNCHANGED waited
           [] OTHER ->
                /\ waited' = PollStart(waited)
                /\ UNCHANGED <<result, outcome, pc>>
    /\ UNCHANGED <<last_event, connection_status,
                   msg_id, pending, elapsed, ncalls, sent,
                   match_in_time>>

\* _send_receive, lines 60, 72-73: poll() waited ctrl_timeout without data
PollTimeout_marks_disconnected ==
    /\ pc = "poll"
    /\ sock = <<>>
    /\ waited >= Timeout
    /\ polls' = polls + 1
    /\ result' = Empty
    /\ outcome' = "timeout"
    /\ pc' = "idle"
    /\ connection_status' = FALSE
    /\ UNCHANGED <<last_event, msg_id, sock, pending, waited, elapsed,
                   ncalls, sent, recvs, consumed, match_in_time>>
PollTimeout ==
    /\ pc = "poll"
    /\ sock = <<>>
    /\ waited >= Timeout
    /\ polls' = polls + 1
    /\ result' = Empty
    /\ outcome' = "timeout"
    /\ pc' = "idle"
    /\ UNCHANGED <<last_event, connection_status,
                   msg_id, sock, pending, waited, elapsed,
                   ncalls, sent, recvs, consumed, match_in_time>>

\* Time passes. While the client is blocked in poll() on an empty socket the
\* poll's wait advances; the time since the last send advances in any case.
Tick ==
    /\ \/ pc = "poll" /\ sock = <<>> /\ waited < Timeout
       \/ pc = "idle" /\ elapsed <= Timeout /\ msg_id > 0
    /\ waited' = IF pc = "poll" THEN waited + 1 ELSE waited
    /\ elapsed' = Min(elapsed + 1, Timeout + 1)
    /\ UNCHANGED <<last_event, connection_status,
                   msg_id, sock, pending, pc, result,
                   outcome, ncalls, sent, polls, recvs, consumed,
                   match_in_time>>

\* The worker answers one of the requests it has received, at any time:
\* promptly, or after the client has given up on the request.
WorkerReply ==
    \E i \in pending, v \in BOOLEAN, t \in MsgTypes :
        /\ Len(sock) < MaxSock
        /\ sock' = Append(sock, Message(v, i, t))
        /\ pending' = pending \ {i}
        /\ match_in_time' =
              (match_in_time \/ (v /\ i = msg_id /\ elapsed <= Timeout))
        /\ UNCHANGED <<last_event, connection_status,
                       msg_id, pc, waited, elapsed, result,
                       outcome, ncalls, sent, polls, recvs, consumed>>


(***************************************************************************)
(* MunirFpController state (fp_controller.py) and its workers.             *)
(***************************************************************************)
\* number of set() requests explored
MaxSets == 2
\* number of times the periodic status callback comes due
MaxPolls == 1
\* number of await_response calls that end without a reply
MaxTimeouts == 1
\* number of control endpoints (len(self.endpoints))
NumWorkers == 2
\* number of status polls explored when nothing but the poll runs
MaxStatusPolls == 3
\* number of configuration steps of execute_acquisition
NumSteps == 4

VARIABLES
    do_execute,     \* MunirFpController.do_execute
    fp_status,      \* MunirFpController.fp_status, one snapshot per endpoint
    fp_msg_id,      \* MunirFpController._msg_id
    task,           \* the callback the IOLoop runs: "none", "exec", "status"
    step,           \* execute_acquisition: the configuration step being sent
    widx,           \* index of the channel a loop over ctrl_channels is at
    all_valid,      \* send_config_message: all_responses_valid
    active,         \* execute_acquisition calls entered and not yet returned
    exec_calls,     \* execute_acquisition calls made so far
    exec_result,    \* return value of the last execute_acquisition
    nsets,          \* set() requests handled so far
    npolls,         \* times the periodic callback came due
    wrote_execute,  \* the last set() request called set_execute(True)
    put_error,      \* MunirAdapter.put: the exception the last set() raised
    timer_due,      \* the PeriodicCallback is due and waits for the IOLoop
    ntimeouts,      \* await_response calls that ended without a reply
    wq,             \* per worker: requests sent to it, not yet processed
    chan,           \* per worker: replies on the control channel, unread
    writing         \* per worker: the hdf plugin is writing

fvars == <<do_execute, fp_status, fp_msg_id, task, step, widx,
           all_valid, active, exec_calls, exec_result, nsets, npolls,
           wrote_execute, put_error, timer_due, ntimeouts, wq, chan,
           writing>>


Workers == 1..NumWorkers

\* A status snapshot is "none" when it has no 'hdf' key ({}, or the params of
\* a configure reply), "idle" with hdf.writing false, "writing" with
\* hdf.writing true.

\* The data of a set() request, as the parameter tree merges it key by key in
\* the order of the request: an 'execute' key that is absent, true or false,
\* and possibly a key the tree rejects (unknown or read-only) with a
\* ParameterTreeError, placed before or after the 'execute' key.
Requests == [execute : {"absent", "true", "false"},
             bad : {"none", "before", "after"}]

\* MunirFpController._is_executing
_is_executing == \E w \in Workers : fp_status[w] = "writing"

\* MunirFpController.set_execute(value): the new do_execute and whether a
\* MunirError is raised
set_execute_unguarded(value, cur) ==
    IF value THEN [do_execute |-> TRUE, raised |-> FALSE]
    ELSE [do_execute |-> cur, raised |-> FALSE]
set_execute(value, cur) ==
    IF value
    THEN IF ~_is_executing
         THEN [do_execute |-> TRUE, raised |-> FALSE]
         ELSE [do_execute |-> cur, raised |-> TRUE]
    ELSE [do_execute |-> cur, raised |-> FALSE]

\* self.param_tree.set(path, data): the keys of the request are applied in
\* order, and the first exception ends the merge with the earlier keys applied
ParamTreeSet(req) ==
    IF req.bad = "before"
    THEN [do_execute |-> do_execute, error |-> "ParameterTreeError"]
    ELSE LET r == IF req.execute = "absent"
                  THEN [do_execute |-> do_execute, raised |-> FALSE]
                  ELSE set_execute(req.execute = "true", do_execute)
         IN  IF r.raised
             THEN [do_execute |-> r.do_execute, error |-> "MunirError"]
             ELSE IF req.bad = "after"
             THEN [do_execute |-> r.do_execute, error |-> "ParameterTreeError"]
             ELSE [do_execute |-> r.do_execute, error |-> "none"]

\* MunirFpController.set, lines 125-126: do_execute as set() leaves it when
\* it goes on to call execute_acquisition
do_execute_at_dispatch_kept(cur) == cur
do_execute_at_dispatch(cur) == FALSE

\* MunirFpController.set calls execute_acquisition inline: the call blocks
\* the IOLoop until it has returned
execute_acquisition_on_executor == FALSE
execute_acquisition_blocks == TRUE

\* The IOLoop can start another callback
LoopFree ==
    \/ task = "none"
    \/ task = "exec" /\ ~execute_acquisition_blocks

FInit ==
    /\ do_execute = FALSE
    /\ fp_status = [w \in Workers |-> "none"]
    /\ fp_msg_id = 0
    /\ task = "none"
    /\ step = 0
    /\ widx = 0
    /\ all_valid = TRUE
    /\ active = 0
    /\ exec_calls = 0
    /\ exec_result = "none"
    /\ nsets = 0
    /\ npolls = 0
    /\ wrote_execute = FALSE
    /\ put_error = "none"
    /\ timer_due = FALSE
    /\ ntimeouts = 0
    /\ wq = [w \in Workers |-> <<>>]
    /\ chan = [w \in Workers |-> <<>>]
    /\ writing = [w \in Workers |-> FALSE]

\* send_config_message, lines 214-217: build the configure message of step s
\* and send it on the channel of worker w
ConfigSend(w, s) ==
    /\ fp_msg_id' = fp_msg_id + 1
    /\ wq' = [wq EXCEPT ![w] =
                Append(@, [kind |-> "configure", id |-> fp_msg_id',
                           step |-> s])]

\* MunirAdapter.put -> MunirFpController.set(path, data), up to the call of
\* execute_acquisition (or to the response, when there is none)
Set(req) ==
    /\ LoopFree
    /\ nsets < MaxSets
    /\ nsets' = nsets + 1
    /\ wrote_execute' = (req.execute = "true" /\ req.bad # "before")
    /\ LET r == ParamTreeSet(req) IN
         /\ put_error' = r.error
         /\ IF r.error # "none"
            THEN \* the exception leaves set(); put() answers 400
                 /\ do_execute' = r.do_execute
                 /\ UNCHANGED <<task, step, widx, all_valid, active,
                                exec_calls, fp_msg_id, wq>>
            ELSE IF r.do_execute
            THEN \* do_execute = False; self.execute_acquisition()
                 /\ do_execute' = do_execute_at_dispatch(r.do_execute)
                 /\ task' = "exec"
                 /\ step' = 1
                 /\ widx' = 1
                 /\ all_valid' = TRUE
                 /\ active' = active + 1
                 /\ exec_calls' = exec_calls + 1
                 /\ ConfigSend(1, 1)
            ELSE /\ do_execute' = r.do_execute
                 /\ UNCHANGED <<task, step, widx, all_valid, active,
                                exec_calls, fp_msg_id, wq>>
    /\ UNCHANGED <<fp_status, exec_result, npolls, timer_due, ntimeouts, chan,
                   writing>>

SetRequest == \E req \in Requests : Set(req)

\* The loop of send_config_message moves to the next channel; after the last
\* channel execute_acquisition aborts, moves to the next step, or returns True
\* and set() returns the tree to put(), which answers 200.
ConfigAdvance(valid) ==
    IF widx < NumWorkers
    THEN /\ widx' = widx + 1
         /\ all_valid' = valid
         /\ ConfigSend(widx', step)
         /\ UNCHANGED <<task, step, active, exec_result>>
    ELSE IF valid /\ step < NumSteps
    THEN /\ widx' = 1
         /\ step' = step + 1
         /\ all_valid' = TRUE
         /\ ConfigSend(1, step')
         /\ UNCHANGED <<task, active, exec_result>>
    ELSE /\ task' = "none"
         /\ active' = active - 1
         /\ exec_result' = IF valid THEN "true" ELSE "false"
         /\ UNCHANGED <<widx, step, all_valid, fp_msg_id, wq>>

\* await_response: poll() reports POLLIN and the reply is received
ConfigAwaitReply ==
    /\ task = "exec"
    /\ chan[widx] # <<>>
    /\ chan' = [chan EXCEPT ![widx] = Tail(@)]
    /\ ConfigAdvance(all_valid)
    /\ UNCHANGED <<do_execute, fp_status, exec_calls, nsets, npolls, wrote_execute,
                   put_error, timer_due, writing, ntimeouts>>

\* await_response: nothing arrived within ctrl_timeout
ConfigAwaitTimeout ==
    /\ task = "exec"
    /\ chan[widx] = <<>>
    /\ ntimeouts < MaxTimeouts
    /\ ntimeouts' = ntimeouts + 1
    /\ ConfigAdvance(FALSE)
    /\ UNCHANGED <<do_execute, fp_status, exec_calls, nsets, npolls, wrote_execute,
                   put_error, timer_due, chan, writing>>

\* The PeriodicCallback update_task comes due, at most limit times
TimerFireUpTo(limit) ==
    /\ ~timer_due
    /\ npolls < limit
    /\ timer_due' = TRUE
    /\ npolls' = npolls + 1
    /\ UNCHANGED <<do_execute, fp_status, fp_msg_id, task, step, widx,
                   all_valid, active, exec_calls, exec_result, nsets,
                   wrote_execute, put_error, wq, chan, writing, ntimeouts>>

TimerFire == TimerFireUpTo(MaxPolls)

\* the same callback where only the status poll is explored
TimerFireAgain == TimerFireUpTo(MaxStatusPolls)

\* _get_status, lines 198-202: one status message is sent on every channel
StatusSend ==
    /\ LoopFree
    /\ timer_due
    /\ timer_due' = FALSE
    /\ fp_msg_id' = fp_msg_id + 1
    /\ wq' = [w \in Workers |->
                Append(wq[w], [kind |-> "status", id |-> fp_msg_id',
                               step |-> 0])]
    /\ task' = "status"
    /\ widx' = 1
    /\ UNCHANGED <<do_execute, fp_status, step, all_valid, active,
                   exec_calls, exec_result, nsets, npolls, wrote_execute,
                   put_error, chan, writing, ntimeouts>>

\* _get_status, lines 204-207: a reply arrived on channel widx
StatusAwaitReply ==
    /\ task = "status"
    /\ chan[widx] # <<>>
    /\ fp_status' = [fp_status EXCEPT ![widx] = Head(chan[widx]).params]
    /\ chan' = [chan EXCEPT ![widx] = Tail(@)]
    /\ IF widx < NumWorkers
       THEN widx' = widx + 1 /\ UNCHANGED task
       ELSE task' = "none" /\ UNCHANGED widx
    /\ UNCHANGED <<do_execute, fp_msg_id, step, all_valid, active,
                   exec_calls, exec_result, nsets, npolls, wrote_execute,
                   put_error, timer_due, wq, writing, ntimeouts>>

\* _get_status, lines 204-207: no reply on channel widx within ctrl_timeout
StatusAwaitTimeout ==
    /\ task = "status"
    /\ chan[widx] = <<>>
    /\ ntimeouts < MaxTimeouts
    /\ ntimeouts' = ntimeouts + 1
    /\ IF widx < NumWorkers
       THEN widx' = widx + 1 /\ UNCHANGED task
       ELSE task' = "none" /\ UNCHANGED widx
    /\ UNCHANGED <<do_execute, fp_status, fp_msg_id, step, all_valid,
                   active, exec_calls, exec_result, nsets, npolls, wrote_execute,
                   put_error, timer_due, wq, chan, writing>>

\* A worker processes the oldest request it holds and replies. The
\* configuration of step 1 turns file writing off ("hdf": {"write": False}),
\* that of step 2 turns it on ("hdf": {..., "write": True}).
WorkerProcess(w) ==
    /\ wq[w] # <<>>
    /\ LET req == Head(wq[w])
           now == IF req.kind = "configure" /\ req.step = 1 THEN FALSE
                  ELSE IF req.kind = "configure" /\ req.step = 2 THEN TRUE
                  ELSE writing[w]
       IN  /\ writing' = [writing EXCEPT ![w] = now]
           /\ chan' = [chan EXCEPT ![w] =
                 Append(@, [kind |-> req.kind, id |-> req.id,
                            params |-> IF req.kind = "status"
                                       THEN IF now THEN "writing" ELSE "idle"
                                       ELSE "none"])]
    /\ wq' = [wq EXCEPT ![w] = Tail(@)]
    /\ UNCHANGED <<do_execute, fp_status, fp_msg_id, task, step, widx,
                   all_valid, active, exec_calls, exec_result, nsets,
                   npolls, wrote_execute, put_error, timer_due, ntimeouts>>

\* A worker has written all the frames of its acquisition
WorkerFinish(w) ==
    /\ writing[w]
    /\ writing' = [writing EXCEPT ![w] = FALSE]
    /\ UNCHANGED <<do_execute, fp_status, fp_msg_id, task, step, widx,
                   all_valid, active, exec_calls, exec_result, nsets,
                   npolls, wrote_execute, put_error, timer_due, wq,
                   chan, ntimeouts>>

(***************************************************************************)
(* MunirManager and its OdinData instances                                 *)
(* (src/src/munir/munir_manager.py, odin_data_util.py).                    *)
(*                                                                         *)
(* Every method of OdinData blocks the IOLoop until it returns, so one     *)
(* step of the model is one call the manager makes on one OdinData         *)
(* instance; what the worker answers to each request of the call is the    *)
(* step's input.                                                           *)
(***************************************************************************)
\* number of manager operations explored (execute, stop, periodic poll)
MaxOps == 2
\* number of direct calls explored on one OdinData instance
MaxOdCalls == 3

VARIABLES
    profile,        \* what load_config returned: "loaded" or "empty" ({})
    od_conn,        \* per instance: channel.connection_status
    od_merged,      \* per instance: documents merged into self.config
    od_status,      \* per instance: OdinData.status
    mgr_fp_status,  \* MunirManager.fp_status
    m_op,           \* the manager operation running, or the last one run
    m_phase,        \* the loop the operation is in, "idle" once it returned
    m_widx,         \* index of the instance the loop is at
    all_success,    \* the local all_success of the operation
    m_result,       \* return value of the last operation
    m_nops,         \* operations started so far
    m_trace,        \* _send_receive calls of the current operation, in order
    create_res,     \* per instance: create_acquisition's return value
    start_res,      \* per instance: start_acquisition's return value
    stop_res,       \* per instance: stop_acquisition's return value
    last_call,      \* the OdinData method called last: what _send_receive
                    \* returned to it, call by call, and its result
    od_ncalls       \* direct calls made on the first OdinData instance

mvars == <<profile, od_conn, od_merged, od_status, mgr_fp_status, m_op,
           m_phase, m_widx, all_success, m_result, m_nops, m_trace,
           create_res, start_res, stop_res, last_call, od_ncalls>>

\* The acquisition document of the first OdinData instance under direct calls
VARIABLES
    acq_config,     \* self.config['acquisition_config'] of a loaded profile
    create_args,    \* the arguments of the last create_acquisition
    create_docs,    \* the acquisition documents that call gave to set_config
    lv              \* self.lv, the liveview flag given to the constructor

dvars == <<acq_config, create_args, create_docs, lv>>

\* the acquisition_config section of the profile file: one capture plugin
\* and hdf
AcquisitionConfig(rx_frames, path, frames, acquisition_id) ==
    [plugin |-> [rx_frames |-> rx_frames, mode |-> "capture"],
     hdf |-> [file |-> [path |-> path, extension |-> "h5"],
              frames |-> frames,
              acquisition_id |-> acquisition_id,
              master |-> "data"]]

ProfileAcquisitionConfig == AcquisitionConfig(0, "", 0, "")

Args(path, acquisition_id, frames) ==
    [path |-> path, acquisition_id |-> acquisition_id, frames |-> frames]

\* the arguments callers pass: MunirManager's defaults and another set
CreateArgs == {Args("/tmp/", "test", 1000), Args("/data", "run1", 500)}

\* create_acquisition, lines 146-160: the copy of acquisition_config with
\* the plugin's rx_frames and hdf's path, frames and acquisition_id set
acquisition_document_keeps_hdf_frames(config, args) ==
    [config EXCEPT !.plugin.rx_frames = args.frames,
                   !.hdf.file.path = args.path,
                   !.hdf.acquisition_id = args.acquisition_id]
acquisition_document(config, args) ==
    [config EXCEPT !.plugin.rx_frames = args.frames,
                   !.hdf.file.path = args.path,
                   !.hdf.frames = args.frames,
                   !.hdf.acquisition_id = args.acquisition_id]

DInit ==
    /\ acq_config = ProfileAcquisitionConfig
    /\ create_args = Args("", "", 0)
    /\ create_docs = <<>>
    /\ lv = FALSE

\* status documents a worker reports; "none" is the initial {}
StatusDocs == {"idle", "writing"}

\* response.attrs as the callers of _send_receive read it: msg_type, and
\* params ("absent" when the response has no 'params' key)
Attrs(t, p) == [msg_type |-> t, params |-> p]

\* the empty dict {}
EmptyAttrs == Attrs("none", "absent")

\* what a call of _send_receive can get back from a connected worker: a
\* valid response with the request's id, or nothing usable (timeout,
\* invalid response). The callers read params of a status response only.
ConfigReplies == {EmptyAttrs} \cup {Attrs(t, "absent") : t \in MsgTypes}
StatusReplies ==
    {EmptyAttrs, Attrs("nack", "absent")} \cup
    {Attrs("ack", p) : p \in StatusDocs}

\* _send_receive as its callers see it
send_receive(connected, reply) == IF connected THEN reply ELSE EmptyAttrs

\* bool(response): a dict is false only when it is empty
Truthy(response) == response # EmptyAttrs

\* self.config.get(section, {}) for stop_config and start_config
Doc(section) == IF profile = "loaded" THEN section ELSE "empty_doc"

\* set_config, lines 104-105: the documents merged into self.config
set_config_merge_any_reply(merged, doc, response) ==
    IF Truthy(response) THEN merged \cup {doc} ELSE merged
set_config_merge(merged, doc, response) ==
    IF response.msg_type = "ack" THEN merged \cup {doc} ELSE merged

\* get_status, lines 115-118: the new value of self.status
get_status_cache_clears(status, response) ==
    IF response.params # "absent" THEN response.params ELSE "none"
get_status_cache(status, response) ==
    IF response.params # "absent" THEN response.params ELSE status

\* one entry of m_trace: a call of _send_receive on instance w, and whether
\* it sent its message
Call(w, req) == [w |-> w, req |-> req, sent |-> od_conn[w]]

\* one value of last_call; ret is the method's return value: "true" or
\* "false", or the status document get_status returned
LastCall(prim, w, responses, ret) ==
    [prim |-> prim, w |-> w, responses |-> responses, ret |-> ret]

\* all_success after one more per-instance result
all_success_update_last_wins(all, ok) == ok
all_success_update(all, ok) == all /\ ok

\* execute_acquisition, lines 160-161: return early after the create loop
create_failed_returns_never(all) == FALSE
create_failed_returns(all) == ~all

\* MunirManager._is_executing over the snapshots in fp_status
MunirManager_is_executing == \E w \in Workers : mgr_fp_status[w] = "writing"

NoResults == [w \in Workers |-> "none"]
BoolStr(b) == IF b THEN "true" ELSE "false"

MInit ==
    /\ profile = "unset"
    /\ od_conn = [w \in Workers |-> FALSE]
    /\ od_merged = [w \in Workers |-> {}]
    /\ od_status = [w \in Workers |-> "none"]
    /\ mgr_fp_status = [w \in Workers |-> "none"]
    /\ m_op = "none"
    /\ m_phase = "new"
    /\ m_widx = 1
    /\ all_success = TRUE
    /\ m_result = "none"
    /\ m_nops = 0
    /\ m_trace = <<>>
    /\ create_res = NoResults
    /\ start_res = NoResults
    /\ stop_res = NoResults
    /\ last_call = LastCall("none", 1, <<>>, "none")
    /\ od_ncalls = 0

\* MunirManager.__init__: every OdinData instance loads the same profile
\* file and subsystem key; load_config returns the subsystem's section or {}
MgrConstruct ==
    /\ m_phase = "new"
    /\ \E p \in {"loaded", "empty"} : profile' = p
    /\ m_phase' = "idle"
    /\ UNCHANGED <<od_ncalls, od_conn, od_merged, od_status, mgr_fp_status, m_op,
                   m_widx, all_success, m_result, m_nops, m_trace,
                   create_res, start_res, stop_res, last_call>>

\* _handle_monitor_event on the channel of one instance: a callback of the
\* IOLoop, run while no manager operation blocks the loop
MgrMonitorEvent(w) ==
    /\ m_phase = "idle"
    /\ \E ev \in {"accepted", "disconnected"} :
          od_conn' = [od_conn EXCEPT ![w] = _handle_monitor_event(ev, @)]
    /\ od_conn' # od_conn
    /\ UNCHANGED <<od_ncalls, profile, od_merged, od_status, mgr_fp_status, m_op,
                   m_phase, m_widx, all_success, m_result, m_nops, m_trace,
                   create_res, start_res, stop_res, last_call>>

\* OdinData.set_config on instance w, whose self.config holds merged
set_config(w, merged, doc, reply) ==
    LET response == send_receive(od_conn[w], reply) IN
    [response |-> response,
     merged |-> set_config_merge(merged, doc, response),
     calls |-> <<Call(w, doc)>>]

\* OdinData.stop_acquisition
stop_acquisition(w, merged, reply) ==
    LET sc == set_config(w, merged, Doc("stop_config"), reply) IN
    [ok |-> Truthy(sc.response), merged |-> sc.merged, calls |-> sc.calls,
     responses |-> <<sc.response>>]

\* OdinData.start_acquisition
start_acquisition_stops_first(w, merged, reply) ==
    LET stop == stop_acquisition(w, merged, reply)
        sc == set_config(w, stop.merged, Doc("start_config"), reply)
    IN  IF ~stop.ok THEN stop
        ELSE [ok |-> Truthy(sc.response), merged |-> sc.merged,
              calls |-> stop.calls \o sc.calls,
              responses |-> stop.responses \o <<sc.response>>]
start_acquisition(w, merged, reply) ==
    LET sc == set_config(w, merged, Doc("start_config"), reply) IN
    [ok |-> Truthy(sc.response), merged |-> sc.merged, calls |-> sc.calls,
     responses |-> <<sc.response>>]

\* OdinData.create_acquisition: stop, then send acquisition_config with
\* the path, frame count and acquisition id filled in. An empty profile has
\* no acquisition_config and so no plugin name.
create_acquisition(w, merged, reply1, reply2) ==
    LET stop == stop_acquisition(w, merged, reply1)
        sc == set_config(w, stop.merged, "acquisition_config", reply2)
    IN  IF ~stop.ok THEN [stop EXCEPT !.ok = FALSE]
        ELSE IF profile # "loaded" THEN [stop EXCEPT !.ok = FALSE]
        ELSE [ok |-> Truthy(sc.response), merged |-> sc.merged,
              calls |-> stop.calls \o sc.calls,
              responses |-> stop.responses \o <<sc.response>>]

\* self.config.get(section) for arm_config and lv_config: None when the
\* profile has no such section
LvDoc(section) == IF profile = "loaded" THEN section ELSE "None"

\* One more step of start_lv after the steps in sofar: set_config(doc).
\* self.config.update(None) raises TypeError, so an acked request without
\* a document ends the call with the exception.
lv_step(w, sofar, doc, reply) ==
    LET response == send_receive(od_conn[w], reply)
        calls == sofar.calls \o <<Call(w, doc)>>
        responses == sofar.responses \o <<response>>
    IN  IF doc = "None" /\ response.msg_type = "ack"
        THEN [ret |-> "raised", merged |-> sofar.merged, calls |-> calls,
              responses |-> responses]
        ELSE [ret |-> BoolStr(Truthy(response)),
              merged |-> set_config_merge(sofar.merged, doc, response),
              calls |-> calls, responses |-> responses]

\* OdinData.start_lv
start_lv(w, merged, reply1, reply2, reply3) ==
    LET stop == stop_acquisition(w, merged, reply1)
        stopped == [ret |-> BoolStr(stop.ok), merged |-> stop.merged,
                    calls |-> stop.calls, responses |-> stop.responses]
        armed == lv_step(w, stopped, LvDoc("arm_config"), reply2)
    IN  IF ~lv
        THEN [ret |-> "none", merged |-> merged, calls |-> <<>>,
              responses |-> <<>>]
        ELSE IF stopped.ret # "true" THEN stopped
        ELSE IF armed.ret # "true" THEN armed
        ELSE lv_step(w, armed, LvDoc("lv_config"), reply3)

\* OdinData.get_status
get_status(w, status, reply) ==
    LET response == send_receive(od_conn[w], reply) IN
    [status |-> get_status_cache(status, response),
     calls |-> <<Call(w, "status")>>, responses |-> <<response>>]

\* execute_acquisition is entered
MgrExecute ==
    /\ m_phase = "idle"
    /\ m_nops < MaxOps
    /\ m_nops' = m_nops + 1
    /\ m_op' = "execute"
    /\ m_phase' = "create"
    /\ m_widx' = 1
    /\ all_success' = TRUE
    /\ m_result' = "none"
    /\ m_trace' = <<>>
    /\ create_res' = NoResults
    /\ start_res' = NoResults
    /\ stop_res' = NoResults
    /\ UNCHANGED <<od_ncalls, profile, od_conn, od_merged, od_status, mgr_fp_status,
                   last_call>>

\* execute_acquisition, lines 155-161: create_acquisition on one instance;
\* after the last one, return False if any failed
MgrCreate ==
    /\ m_op = "execute"
    /\ m_phase = "create"
    /\ \E reply1, reply2 \in ConfigReplies :
         LET w == m_widx
             c == create_acquisition(w, od_merged[w], reply1, reply2)
             all == all_success_update(all_success, c.ok)
         IN  /\ od_merged' = [od_merged EXCEPT ![w] = c.merged]
             /\ m_trace' = m_trace \o c.calls
             /\ create_res' = [create_res EXCEPT ![w] = BoolStr(c.ok)]
             /\ last_call' = LastCall("create", w, c.responses, BoolStr(c.ok))
             /\ all_success' = all
             /\ IF w < NumWorkers
                THEN /\ m_widx' = w + 1
                     /\ UNCHANGED <<m_phase, m_result>>
                ELSE IF create_failed_returns(all)
                THEN /\ m_phase' = "idle"
                     /\ m_result' = "false"
                     /\ m_widx' = 1
                ELSE /\ m_phase' = "start"
                     /\ m_widx' = 1
                     /\ UNCHANGED m_result
    /\ UNCHANGED <<od_ncalls, profile, od_conn, od_status, mgr_fp_status, m_op, m_nops,
                   start_res, stop_res>>

\* execute_acquisition, lines 164-167: start_acquisition on one instance
MgrStart ==
    /\ m_op = "execute"
    /\ m_phase = "start"
    /\ \E reply \in ConfigReplies :
         LET w == m_widx
             c == start_acquisition(w, od_merged[w], reply)
         IN  /\ od_merged' = [od_merged EXCEPT ![w] = c.merged]
             /\ m_trace' = m_trace \o c.calls
             /\ start_res' = [start_res EXCEPT ![w] = BoolStr(c.ok)]
             /\ last_call' = LastCall("start", w, c.responses, BoolStr(c.ok))
             /\ all_success' = all_success_update(all_success, c.ok)
             /\ IF w < NumWorkers
                THEN m_widx' = w + 1 /\ UNCHANGED m_phase
                ELSE m_widx' = 1 /\ m_phase' = "status"
    /\ UNCHANGED <<od_ncalls, profile, od_conn, od_status, mgr_fp_status, m_op, m_nops,
                   m_result, create_res, stop_res>>

\* stop_acquisition is entered
MgrStop ==
    /\ m_phase = "idle"
    /\ m_nops < MaxOps
    /\ m_nops' = m_nops + 1
    /\ m_op' = "stop"
    /\ m_phase' = "stops"
    /\ m_widx' = 1
    /\ all_success' = TRUE
    /\ m_result' = "none"
    /\ m_trace' = <<>>
    /\ create_res' = NoResults
    /\ start_res' = NoResults
    /\ stop_res' = NoResults
    /\ UNCHANGED <<od_ncalls, profile, od_conn, od_merged, od_status, mgr_fp_status,
                   last_call>>

\* stop_acquisition, lines 190-193: stop_acquisition on one instance
MgrStopOne ==
    /\ m_op = "stop"
    /\ m_phase = "stops"
    /\ \E reply \in ConfigReplies :
         LET w == m_widx
             c == stop_acquisition(w, od_merged[w], reply)
         IN  /\ od_merged' = [od_merged EXCEPT ![w] = c.merged]
             /\ m_trace' = m_trace \o c.calls
             /\ stop_res' = [stop_res EXCEPT ![w] = BoolStr(c.ok)]
             /\ last_call' = LastCall("stop", w, c.responses, BoolStr(c.ok))
             /\ all_success' = all_success_update(all_success, c.ok)
             /\ IF w < NumWorkers
                THEN m_widx' = w + 1 /\ UNCHANGED m_phase
                ELSE m_widx' = 1 /\ m_phase' = "status"
    /\ UNCHANGED <<od_ncalls, profile, od_conn, od_status, mgr_fp_status, m_op, m_nops,
                   m_result, create_res, start_res>>

\* the PeriodicCallback runs _get_status
MgrPollBegin ==
    /\ m_phase = "idle"
    /\ m_op' = "poll"
    /\ m_phase' = "status"
    /\ m_widx' = 1
    /\ m_result' = "none"
    /\ m_trace' = <<>>
    /\ create_res' = NoResults
    /\ start_res' = NoResults
    /\ stop_res' = NoResults
    /\ UNCHANGED <<od_ncalls, profile, od_conn, od_merged, od_status,
                   mgr_fp_status, all_success, last_call>>

MgrPoll ==
    /\ m_nops < MaxOps
    /\ m_nops' = m_nops + 1
    /\ MgrPollBegin

\* _get_status, lines 137-138: get_status on one instance, which gets one
\* of replies back when it is connected; after the last instance the
\* operation that called _get_status returns all_success
GetStatusStep(replies) ==
    /\ m_phase = "status"
    /\ \E reply \in replies :
         LET w == m_widx
             g == get_status(w, od_status[w], reply)
         IN  /\ od_status' = [od_status EXCEPT ![w] = g.status]
             /\ mgr_fp_status' = [mgr_fp_status EXCEPT ![w] = g.status]
             /\ m_trace' = m_trace \o g.calls
             /\ last_call' = LastCall("status", w, g.responses, g.status)
             /\ IF w < NumWorkers
                THEN /\ m_widx' = w + 1
                     /\ UNCHANGED <<m_phase, m_result>>
                ELSE /\ m_widx' = 1
                     /\ m_phase' = "idle"
                     /\ m_result' = IF m_op = "poll" THEN "none"
                                    ELSE BoolStr(all_success)
    /\ UNCHANGED <<od_ncalls, profile, od_conn, od_merged, m_op, all_success,
                   m_nops, create_res, start_res, stop_res>>

MgrGetStatus == GetStatusStep(StatusReplies)

(***************************************************************************)
(* The periodic status poll of MunirManager against workers that write and *)
(* finish, with the poll running for ever.                                 *)
(***************************************************************************)
VARIABLES
    w_writing       \* per worker: its hdf plugin is writing

lvars == <<w_writing>>

LInit == w_writing = [w \in Workers |-> FALSE]

\* what worker w answers to a status request, when its answer arrives in
\* time
WorkerStatusReplies(w) ==
    {EmptyAttrs, Attrs("ack", IF w_writing[w] THEN "writing" ELSE "idle")}

\* A worker begins to write the frames of an acquisition
LiveWorkerStart(w) ==
    /\ ~w_writing[w]
    /\ w_writing' = [w_writing EXCEPT ![w] = TRUE]

\* A worker has written all the frames of its acquisition
LiveWorkerFinish(w) ==
    /\ w_writing[w]
    /\ w_writing' = [w_writing EXCEPT ![w] = FALSE]

\* the PeriodicCallback comes due again and again
LivePoll == MgrPollBegin /\ UNCHANGED m_nops

LiveGetStatus == GetStatusStep(WorkerStatusReplies(m_widx))


\* A caller invokes one method of the first OdinData instance directly.
\* m_trace then holds the _send_receive calls of that one method call.
OdStopAcquisition ==
    /\ m_phase = "idle"
    /\ od_ncalls < MaxOdCalls
    /\ od_ncalls' = od_ncalls + 1
    /\ \E reply \in ConfigReplies :
         LET c == stop_acquisition(1, od_merged[1], reply) IN
         /\ od_merged' = [od_merged EXCEPT ![1] = c.merged]
         /\ m_trace' = c.calls
         /\ last_call' = LastCall("stop", 1, c.responses, BoolStr(c.ok))
    /\ UNCHANGED <<profile, od_conn, od_status, mgr_fp_status, m_op, m_phase,
                   m_widx, all_success, m_result, m_nops, create_res,
                   start_res, stop_res>>
    /\ create_docs' = <<>>
    /\ UNCHANGED <<acq_config, create_args, lv>>

OdStartAcquisition ==
    /\ m_phase = "idle"
    /\ od_ncalls < MaxOdCalls
    /\ od_ncalls' = od_ncalls + 1
    /\ \E reply \in ConfigReplies :
         LET c == start_acquisition(1, od_merged[1], reply) IN
         /\ od_merged' = [od_merged EXCEPT ![1] = c.merged]
         /\ m_trace' = c.calls
         /\ last_call' = LastCall("start", 1, c.responses, BoolStr(c.ok))
    /\ UNCHANGED <<profile, od_conn, od_status, mgr_fp_status, m_op, m_phase,
                   m_widx, all_success, m_result, m_nops, create_res,
                   start_res, stop_res>>
    /\ create_docs' = <<>>
    /\ UNCHANGED <<acq_config, create_args, lv>>

OdCreateAcquisition ==
    /\ m_phase = "idle"
    /\ od_ncalls < MaxOdCalls
    /\ od_ncalls' = od_ncalls + 1
    /\ \E reply1, reply2 \in ConfigReplies, args \in CreateArgs :
         LET c == create_acquisition(1, od_merged[1], reply1, reply2)
             doc == acquisition_document(acq_config, args)
         IN
         /\ od_merged' = [od_merged EXCEPT ![1] = c.merged]
         /\ m_trace' = c.calls
         /\ last_call' = LastCall("create", 1, c.responses, BoolStr(c.ok))
         /\ create_args' = args
         \* the copy is shallow: the nested dicts written to are the profile's
         /\ IF Len(c.calls) = 2
            THEN acq_config' = doc /\ create_docs' = <<doc>>
            ELSE acq_config' = acq_config /\ create_docs' = <<>>
    /\ UNCHANGED lv
    /\ UNCHANGED <<profile, od_conn, od_status, mgr_fp_status, m_op, m_phase,
                   m_widx, all_success, m_result, m_nops, create_res,
                   start_res, stop_res>>

OdStartLv ==
    /\ m_phase = "idle"
    /\ od_ncalls < MaxOdCalls
    /\ od_ncalls' = od_ncalls + 1
    /\ \E reply1, reply2, reply3 \in ConfigReplies :
         LET c == start_lv(1, od_merged[1], reply1, reply2, reply3) IN
         /\ od_merged' = [od_merged EXCEPT ![1] = c.merged]
         /\ m_trace' = c.calls
         /\ last_call' = LastCall("start_lv", 1, c.responses, c.ret)
    /\ UNCHANGED <<profile, od_conn, od_status, mgr_fp_status, m_op, m_phase,
                   m_widx, all_success, m_result, m_nops, create_res,
                   start_res, stop_res>>
    /\ create_docs' = <<>>
    /\ UNCHANGED <<acq_config, create_args, lv>>

\* OdinData.__init__ as MunirManager.__init__ calls it, with the liveview
\* flag. The constructor's own start_lv, made when the flag is set, finds
\* the channel not yet connected: its stop request is not sent and it
\* returns False with nothing changed.
OdConstruct ==
    /\ MgrConstruct
    /\ \E flag \in BOOLEAN : lv' = flag
    /\ UNCHANGED <<acq_config, create_args, create_docs>>

OdGetStatus ==
    /\ m_phase = "idle"
    /\ od_ncalls < MaxOdCalls
    /\ od_ncalls' = od_ncalls + 1
    /\ \E reply \in StatusReplies :
         LET c == get_status(1, od_status[1], reply) IN
         /\ od_status' = [od_status EXCEPT ![1] = c.status]
         /\ m_trace' = c.calls
         /\ last_call' = LastCall("status", 1, c.responses, c.status)
    /\ UNCHANGED <<profile, od_conn, od_merged, mgr_fp_status, m_op, m_phase,
                   m_widx, all_success, m_result, m_nops, create_res,
                   start_res, stop_res>>
    /\ create_docs' = <<>>
    /\ UNCHANGED <<acq_config, create_args, lv>>

(***************************************************************************)
(* The status aggregation of MunirManager (and, with the same code, of     *)
(* MunirFpController): _is_executing and _frames_written over fp_status.   *)
(***************************************************************************)
\* values of hdf.frames_written the workers report
FrameCounts == {0, 5, 10}

VARIABLES
    agg_status,     \* fp_status: one status document per endpoint
    agg_executing,  \* what the last read of status/executing returned
    agg_frames,     \* what the last read of status/frames_written returned
    agg_fresh       \* fp_status has not changed since that read

avars == <<agg_status, agg_executing, agg_frames, agg_fresh>>

\* A status document, as far as the aggregation reads it: whether it has the
\* 'hdf' key, and whether hdf has 'writing' and 'frames_written'
StatusDoc(hdf, has_w, w, has_f, f) ==
    [has_hdf |-> hdf, has_writing |-> has_w, writing |-> w,
     has_frames |-> has_f, frames_written |-> f]

\* {}
NoHdf == StatusDoc(FALSE, FALSE, FALSE, FALSE, 0)

AggStatusDocs ==
    {NoHdf} \cup
    {StatusDoc(TRUE, hw, hw /\ w, hf, IF hf THEN f ELSE 0) :
        hw \in BOOLEAN, w \in BOOLEAN, hf \in BOOLEAN, f \in FrameCounts}

\* fp_status['hdf'].get('writing', False)
get_writing(doc) == IF doc.has_writing THEN doc.writing ELSE FALSE

\* fp_status['hdf'].get('frames_written', 0)
get_frames_written(doc) == IF doc.has_frames THEN doc.frames_written ELSE 0

\* _is_executing: the loop over fp_status, up to and including slot n
RECURSIVE is_executing_last_slot(_, _)
is_executing_last_slot(fp, n) ==
    IF n = 0 THEN FALSE
    ELSE LET before == is_executing_last_slot(fp, n - 1) IN
         IF fp[n].has_hdf THEN get_writing(fp[n]) ELSE before
RECURSIVE is_executing(_, _)
is_executing(fp, n) ==
    IF n = 0 THEN FALSE
    ELSE LET before == is_executing(fp, n - 1) IN
         IF fp[n].has_hdf THEN before \/ get_writing(fp[n]) ELSE before

\* _frames_written: the loop over fp_status, up to and including slot n
RECURSIVE frames_written_requires_writing(_, _)
frames_written_requires_writing(fp, n) ==
    IF n = 0 THEN 0
    ELSE LET before == frames_written_requires_writing(fp, n - 1) IN
         IF fp[n].has_hdf /\ fp[n].has_writing
         THEN before + get_frames_written(fp[n]) ELSE before
RECURSIVE frames_written(_, _)
frames_written(fp, n) ==
    IF n = 0 THEN 0
    ELSE LET before == frames_written(fp, n - 1) IN
         IF fp[n].has_hdf THEN before + get_frames_written(fp[n]) ELSE before

AInit ==
    /\ agg_status = [w \in Workers |-> NoHdf]
    /\ agg_executing = FALSE
    /\ agg_frames = 0
    /\ agg_fresh = FALSE

\* _get_status stores the status document a worker reported in its slot
AggStore(w, doc) ==
    /\ agg_status' = [agg_status EXCEPT ![w] = doc]
    /\ agg_status' # agg_status
    /\ agg_fresh' = FALSE
    /\ UNCHANGED <<agg_executing, agg_frames>>

\* a read of the status leaves of the parameter tree
AggRead ==
    /\ ~agg_fresh
    /\ agg_executing' = is_executing(agg_status, NumWorkers)
    /\ agg_frames' = frames_written(agg_status, NumWorkers)
    /\ agg_fresh' = TRUE
    /\ UNCHANGED agg_status

(***************************************************************************)
(* The parameter trees of MunirFpController and MunirManager: the          *)
(* acquisition arguments, the timeout leaf and the execute trigger.        *)
(***************************************************************************)
\* number of set() requests explored on the parameter tree
MaxParamSets == 2
\* ctrl_timeout as the adapter passes it to the constructors, in seconds
ConfiguredCtrlTimeout == 2
\* MunirFpController.__init__: self.set_timeout(1.0)
InitialFpTimeout == 1

VARIABLES
    p_args,         \* MunirFpController: file_path, file_name, num_frames,
                    \* num_batches
    p_timeout,      \* MunirFpController.timeout
    p_do_execute,   \* MunirFpController.do_execute
    p_executing,    \* what _is_executing() returns from the cached status
    p_used,         \* the arguments the last set() ran execute_acquisition
                    \* with, <<>> when it ran none
    p_wait,         \* the timeout of the await_response calls of the last
                    \* step, <<>> when it made none
    p_error,        \* the exception the last set() raised
    p_before,       \* the arguments and timeout before the last set()
    p_req,          \* the data of the last set()
    p_written,      \* the timeout leaf has been written
    p_nsets,        \* set() requests handled so far
    mt_timeout,     \* MunirManager.timeout
    mt_ctrl_timeout,\* MunirManager.ctrl_timeout
    mt_od_timeout,  \* per OdinData instance: ctrl_timeout
    mt_wrote,       \* the value last written to MunirManager's timeout leaf
    mt_read         \* what a read of that leaf returned since

pvars == <<p_args, p_timeout, p_do_execute, p_executing, p_used, p_wait,
           p_error, p_before, p_req, p_written, p_nsets, mt_timeout,
           mt_ctrl_timeout, mt_od_timeout, mt_wrote, mt_read>>

AcqArgs(path, name, frames, batches) ==
    [file_path |-> path, file_name |-> name, num_frames |-> frames,
     num_batches |-> batches]

\* MunirFpController.__init__, lines 46-49
DefaultArgs == AcqArgs("/tmp", "test", 1000, 1)

\* the values an 'args' key of a request carries
NewArgs == AcqArgs("/data", "run1", 500, 2)

\* values written to a timeout leaf, in seconds
TimeoutWrites == {1, 5}

\* the keys of a request: the writable leaves and a key the tree rejects
ParamKeys == {"args", "timeout", "execute", "bad"}

\* The data of a set() request: its keys in the order the tree merges them
\* (each at most once, 'execute' carrying true), and the value of 'timeout'
ParamRequests ==
    {[keys |-> k, timeout |-> t] :
        k \in {q \in UNION {[1..n -> ParamKeys] : n \in 1..3} :
                  \A i, j \in DOMAIN q : i # j => q[i] # q[j]},
        t \in TimeoutWrites}

HasKey(req, key) == \E i \in DOMAIN req.keys : req.keys[i] = key

\* param_tree.set(path, data): the keys are merged in order into st; the
\* first exception ends the merge with the earlier keys applied.
\* st.at_trigger holds the arguments as they were when set_execute ran.
RECURSIVE ParamMerge(_, _, _)
ParamMerge(keys, value, st) ==
    IF keys = <<>> THEN st
    ELSE LET key == Head(keys) IN
         IF key = "bad"
         THEN [st EXCEPT !.error = "ParameterTreeError"]
         ELSE IF key = "execute" /\ p_executing
         THEN [st EXCEPT !.error = "MunirError"]
         ELSE ParamMerge(Tail(keys), value,
                 IF key = "args" THEN [st EXCEPT !.args = NewArgs]
                 ELSE IF key = "timeout"
                 THEN [st EXCEPT !.timeout = value, !.wrote = TRUE]
                 ELSE [st EXCEPT !.do_execute = TRUE,
                                 !.at_trigger = st.args])

\* execute_acquisition reads self.file_path, self.file_name and
\* self.num_frames when set() calls it, after the merge
args_read_at_trigger(at_trigger, merged) == at_trigger
args_read(at_trigger, merged) == merged

\* the arguments execute_acquisition puts into its configuration messages
acquisition_request(args) ==
    [file_path |-> args.file_path, file_name |-> args.file_name,
     num_frames |-> args.num_frames]

\* await_response, line 186: channel.poll(int(self.ctrl_timeout * 1000))
await_timeout == ConfiguredCtrlTimeout

PInit ==
    /\ p_args = DefaultArgs
    /\ p_timeout = InitialFpTimeout
    /\ p_do_execute = FALSE
    /\ p_executing = FALSE
    /\ p_used = <<>>
    /\ p_wait = <<>>
    /\ p_error = "none"
    /\ p_before = [args |-> DefaultArgs, timeout |-> InitialFpTimeout]
    /\ p_req = [keys |-> <<>>, timeout |-> InitialFpTimeout]
    /\ p_written = FALSE
    /\ p_nsets = 0
    /\ mt_timeout = ConfiguredCtrlTimeout
    /\ mt_ctrl_timeout = ConfiguredCtrlTimeout
    /\ mt_od_timeout = [w \in Workers |-> ConfiguredCtrlTimeout]
    /\ mt_wrote = <<>>
    /\ mt_read = <<>>

\* MunirFpController.set(path, data), with the execute_acquisition it calls
ParamSet(req) ==
    /\ p_nsets < MaxParamSets
    /\ p_nsets' = p_nsets + 1
    /\ p_req' = req
    /\ p_before' = [args |-> p_args, timeout |-> p_timeout]
    /\ LET r == ParamMerge(req.keys, req.timeout,
                           [args |-> p_args, timeout |-> p_timeout,
                            do_execute |-> p_do_execute, error |-> "none",
                            at_trigger |-> p_args, wrote |-> p_written])
       IN  /\ p_args' = r.args
           /\ p_timeout' = r.timeout
           /\ p_written' = r.wrote
           /\ p_error' = r.error
           /\ IF r.error = "none" /\ r.do_execute
              THEN /\ p_do_execute' = do_execute_at_dispatch(r.do_execute)
                   /\ p_used' = <<acquisition_request(
                                     args_read(r.at_trigger, r.args))>>
                   /\ p_wait' = <<await_timeout>>
              ELSE /\ p_do_execute' = r.do_execute
                   /\ p_used' = <<>>
                   /\ p_wait' = <<>>
    /\ UNCHANGED <<p_executing, mt_timeout, mt_ctrl_timeout, mt_od_timeout,
                   mt_wrote, mt_read>>

\* _get_status: the periodic refresh waits for the workers' replies and
\* stores what they report, so that _is_executing() changes
ParamPoll ==
    /\ \E e \in BOOLEAN : p_executing' = e
    /\ p_wait' = <<await_timeout>>
    /\ <<p_executing', p_wait'>> # <<p_executing, p_wait>>
    /\ UNCHANGED <<p_args, p_timeout, p_do_execute, p_used, p_error,
                   p_before, p_req, p_written, p_nsets, mt_timeout,
                   mt_ctrl_timeout, mt_od_timeout, mt_wrote, mt_read>>

\* MunirManager: a write of value to the timeout leaf calls set_timeout
MgrTimeoutWrite(value) ==
    /\ mt_timeout' = value
    /\ mt_od_timeout' = [w \in Workers |-> value]
    /\ mt_wrote' = <<value>>
    /\ mt_read' = <<>>
    /\ <<mt_wrote', mt_read'>> # <<mt_wrote, mt_read>>
    /\ UNCHANGED <<p_args, p_timeout, p_do_execute, p_executing, p_used,
                   p_wait, p_error, p_before, p_req, p_written, p_nsets,
                   mt_ctrl_timeout>>

\* MunirManager: a read of the timeout leaf, line 54
MgrTimeoutRead ==
    /\ mt_read' = <<mt_ctrl_timeout>>
    /\ mt_read' # mt_read
    /\ UNCHANGED <<p_args, p_timeout, p_do_execute, p_executing, p_used,
                   p_wait, p_error, p_before, p_req, p_written, p_nsets,
                   mt_timeout, mt_ctrl_timeout, mt_od_timeout, mt_wrote>>

(***************************************************************************)
(* MunirController (src/src/munir/controller.py): set() runs on the        *)
(* IOLoop, _execute_cmd on the one thread of the class's executor.         *)
(* RedkiteController has the same set, set_execute and _execute_cmd,       *)
(* without the timeout.                                                    *)
(***************************************************************************)
\* number of set() requests explored on MunirController
MaxCmdSets == 3

VARIABLES
    x_executing,    \* MunirController.executing
    x_do_execute,   \* MunirController.do_execute
    x_queued,       \* _execute_cmd calls submitted to the executor and not
                    \* yet started by its thread
    x_thread,       \* the executor thread: "idle", or "running" _execute_cmd
    x_exception,    \* status/exception: "none" (None) or the error recorded
    x_return_code,  \* status/return_code: "none" (None), "zero", "nonzero",
                    \* "minus_one"
    x_outcome,      \* how the last _execute_cmd that ended went
    x_error,        \* the exception the last set() raised
    x_nsets         \* set() requests handled so far

xvars == <<x_executing, x_do_execute, x_queued, x_thread, x_exception,
           x_return_code, x_outcome, x_error, x_nsets>>

\* How subprocess.run can end: the command exits with code zero or not, runs
\* into the timeout (TimeoutExpired), cannot be launched (OSError, e.g.
\* FileNotFoundError), or raises SubprocessError or TypeError
CmdOutcomes == {"exit_zero", "exit_nonzero", "timeout", "launch_failure",
                "subprocess_error"}

\* MunirController.set_execute(value): the new do_execute and whether a
\* MunirError is raised
cmd_set_execute(value, cur, executing) ==
    IF value
    THEN IF ~executing
         THEN [do_execute |-> TRUE, raised |-> FALSE]
         ELSE [do_execute |-> cur, raised |-> TRUE]
    ELSE [do_execute |-> cur, raised |-> FALSE]

\* self.param_tree.set(path, data) of MunirController, keys merged in order
CmdParamTreeSet(req) ==
    IF req.bad = "before"
    THEN [do_execute |-> x_do_execute, error |-> "ParameterTreeError"]
    ELSE LET r == IF req.execute = "absent"
                  THEN [do_execute |-> x_do_execute, raised |-> FALSE]
                  ELSE cmd_set_execute(req.execute = "true", x_do_execute,
                                       x_executing)
         IN  IF r.raised
             THEN [do_execute |-> r.do_execute, error |-> "MunirError"]
             ELSE IF req.bad = "after"
             THEN [do_execute |-> r.do_execute, error |-> "ParameterTreeError"]
             ELSE [do_execute |-> r.do_execute, error |-> "none"]

\* _execute_cmd from subprocess.run to its last line. The adapter passes the
\* timeout as a float, so the handler of TimeoutExpired raises ValueError
\* from "{:d}".format(self.timeout); OSError is not among the exceptions
\* caught. An exception that leaves the method skips its last line.
execute_cmd_end(how) ==
    IF how = "exit_zero"
    THEN [exception |-> "none", return_code |-> "zero", executing |-> FALSE]
    ELSE IF how = "exit_nonzero"
    THEN [exception |-> "none", return_code |-> "nonzero",
          executing |-> FALSE]
    ELSE IF how = "subprocess_error"
    THEN [exception |-> "recorded", return_code |-> x_return_code,
          executing |-> FALSE]
    ELSE [exception |-> x_exception, return_code |-> x_return_code,
          executing |-> x_executing]

XInit ==
    /\ x_executing = FALSE
    /\ x_do_execute = FALSE
    /\ x_queued = 0
    /\ x_thread = "idle"
    /\ x_exception = "none"
    /\ x_return_code = "none"
    /\ x_outcome = "none"
    /\ x_error = "none"
    /\ x_nsets = 0

\* MunirController.set(path, data) on the IOLoop; _execute_cmd() submits the
\* method to the executor and returns its future at once
CmdSet(req) ==
    /\ x_nsets < MaxCmdSets
    /\ x_nsets' = x_nsets + 1
    /\ LET r == CmdParamTreeSet(req) IN
         /\ x_error' = r.error
         /\ IF r.error = "none" /\ r.do_execute
            THEN /\ x_do_execute' = FALSE
                 /\ x_queued' = x_queued + 1
            ELSE /\ x_do_execute' = r.do_execute
                 /\ UNCHANGED x_queued
    /\ UNCHANGED <<x_executing, x_thread, x_exception, x_return_code,
                   x_outcome>>

\* The executor's thread (max_workers=1) takes the next submitted call;
\* _execute_cmd begins with self.executing = True
CmdStart ==
    /\ x_thread = "idle"
    /\ x_queued > 0
    /\ x_queued' = x_queued - 1
    /\ x_thread' = "running"
    /\ x_executing' = TRUE
    /\ UNCHANGED <<x_do_execute, x_exception, x_return_code, x_outcome,
                   x_error, x_nsets>>

\* subprocess.run ends and _execute_cmd returns or raises
CmdEnd(how) ==
    /\ x_thread = "running"
    /\ x_thread' = "idle"
    /\ x_outcome' = how
    /\ LET e == execute_cmd_end(how) IN
         /\ x_exception' = e.exception
         /\ x_return_code' = e.return_code
         /\ x_executing' = e.executing
    /\ UNCHANGED <<x_do_execute, x_queued, x_error, x_nsets>>

vars == <<cvars, fvars, mvars, lvars, avars, dvars, pvars, xvars>>

Init ==
    CInit /\ FInit /\ MInit /\ LInit /\ AInit /\ DInit /\ PInit /\ XInit

\* One OdinData client and its worker
Next ==
    \/ MonitorAccepted /\ UNCHANGED <<fvars, mvars, lvars, avars, dvars, pvars, xvars>>
    \/ MonitorDisconnected /\ UNCHANGED <<fvars, mvars, lvars, avars, dvars, pvars, xvars>>
    \/ SendReceiveDisconnected /\ UNCHANGED <<fvars, mvars, lvars, avars, dvars, pvars, xvars>>
    \/ SendRequest /\ UNCHANGED <<fvars, mvars, lvars, avars, dvars, pvars, xvars>>
    \/ PollIn /\ UNCHANGED <<fvars, mvars, lvars, avars, dvars, pvars, xvars>>
    \/ PollTimeout /\ UNCHANGED <<fvars, mvars, lvars, avars, dvars, pvars, xvars>>
    \/ Tick /\ UNCHANGED <<fvars, mvars, lvars, avars, dvars, pvars, xvars>>
    \/ WorkerReply /\ UNCHANGED <<fvars, mvars, lvars, avars, dvars, pvars, xvars>>

Spec == Init /\ [][Next]_vars

\* One MunirFpController, its workers and its HTTP clients
FpNext ==
    \/ SetRequest /\ UNCHANGED <<cvars, mvars, lvars, avars, dvars, pvars, xvars>>
    \/ ConfigAwaitReply /\ UNCHANGED <<cvars, mvars, lvars, avars, dvars, pvars, xvars>>
    \/ ConfigAwaitTimeout /\ UNCHANGED <<cvars, mvars, lvars, avars, dvars, pvars, xvars>>
    \/ TimerFire /\ UNCHANGED <<cvars, mvars, lvars, avars, dvars, pvars, xvars>>
    \/ StatusSend /\ UNCHANGED <<cvars, mvars, lvars, avars, dvars, pvars, xvars>>
    \/ StatusAwaitReply /\ UNCHANGED <<cvars, mvars, lvars, avars, dvars, pvars, xvars>>
    \/ StatusAwaitTimeout /\ UNCHANGED <<cvars, mvars, lvars, avars, dvars, pvars, xvars>>
    \/ \E w \in Workers : WorkerProcess(w) /\ UNCHANGED <<cvars, mvars, lvars, avars, dvars, pvars, xvars>>
    \/ \E w \in Workers : WorkerFinish(w) /\ UNCHANGED <<cvars, mvars, lvars, avars, dvars, pvars, xvars>>

FpSpec == Init /\ [][FpNext]_vars

\* The periodic status poll of one MunirFpController and its workers
FpPollNext ==
    \/ TimerFireAgain /\ UNCHANGED <<cvars, mvars, lvars, avars, dvars, pvars, xvars>>
    \/ StatusSend /\ UNCHANGED <<cvars, mvars, lvars, avars, dvars, pvars, xvars>>
    \/ StatusAwaitReply /\ UNCHANGED <<cvars, mvars, lvars, avars, dvars, pvars, xvars>>
    \/ StatusAwaitTimeout /\ UNCHANGED <<cvars, mvars, lvars, avars, dvars, pvars, xvars>>
    \/ \E w \in Workers : WorkerProcess(w) /\ UNCHANGED <<cvars, mvars, lvars, avars, dvars, pvars, xvars>>

FpPollSpec == Init /\ [][FpPollNext]_vars

\* One MunirManager and its OdinData instances
MgrNext ==
    \/ MgrConstruct /\ UNCHANGED <<cvars, fvars, lvars, avars, dvars, pvars, xvars>>
    \/ \E w \in Workers : MgrMonitorEvent(w) /\ UNCHANGED <<cvars, fvars, lvars, avars, dvars, pvars, xvars>>
    \/ MgrExecute /\ UNCHANGED <<cvars, fvars, lvars, avars, dvars, pvars, xvars>>
    \/ MgrCreate /\ UNCHANGED <<cvars, fvars, lvars, avars, dvars, pvars, xvars>>
    \/ MgrStart /\ UNCHANGED <<cvars, fvars, lvars, avars, dvars, pvars, xvars>>
    \/ MgrStop /\ UNCHANGED <<cvars, fvars, lvars, avars, dvars, pvars, xvars>>
    \/ MgrStopOne /\ UNCHANGED <<cvars, fvars, lvars, avars, dvars, pvars, xvars>>
    \/ MgrPoll /\ UNCHANGED <<cvars, fvars, lvars, avars, dvars, pvars, xvars>>
    \/ MgrGetStatus /\ UNCHANGED <<cvars, fvars, lvars, avars, dvars, pvars, xvars>>

MgrSpec == Init /\ [][MgrNext]_vars

\* The status poll of one MunirManager, for ever
LivePollStep == LivePoll /\ UNCHANGED <<cvars, fvars, lvars, avars, dvars, pvars, xvars>>
LiveGetStatusStep == LiveGetStatus /\ UNCHANGED <<cvars, fvars, lvars, avars, dvars, pvars, xvars>>
LiveWorkerFinishStep ==
    \E w \in Workers : LiveWorkerFinish(w) /\ UNCHANGED <<cvars, fvars, mvars, avars, dvars, pvars, xvars>>

LiveNext ==
    \/ MgrConstruct /\ UNCHANGED <<cvars, fvars, lvars, avars, dvars, pvars, xvars>>
    \/ \E w \in Workers : MgrMonitorEvent(w) /\ UNCHANGED <<cvars, fvars, lvars, avars, dvars, pvars, xvars>>
    \/ LivePollStep
    \/ LiveGetStatusStep
    \/ \E w \in Workers : LiveWorkerStart(w) /\ UNCHANGED <<cvars, fvars, mvars, avars, dvars, pvars, xvars>>
    \/ LiveWorkerFinishStep

\* The IOLoop runs the periodic callback whenever it is due and runs a
\* started _get_status to its end; a writing worker finishes its frames.
LiveSpec ==
    /\ Init
    /\ [][LiveNext]_vars
    /\ WF_vars(LivePollStep)
    /\ WF_vars(LiveGetStatusStep)
    /\ WF_vars(LiveWorkerFinishStep)

\* The status aggregation
AggNext ==
    \/ \E w \in Workers, doc \in AggStatusDocs :
          AggStore(w, doc) /\ UNCHANGED <<cvars, fvars, mvars, lvars, dvars, pvars, xvars>>
    \/ AggRead /\ UNCHANGED <<cvars, fvars, mvars, lvars, dvars, pvars, xvars>>

AggSpec == Init /\ [][AggNext]_vars

\* The parameter trees
ParamNext ==
    \/ \E req \in ParamRequests :
          ParamSet(req) /\ UNCHANGED <<cvars, fvars, mvars, lvars, avars, dvars, xvars>>
    \/ ParamPoll /\ UNCHANGED <<cvars, fvars, mvars, lvars, avars, dvars, xvars>>
    \/ \E value \in TimeoutWrites :
          MgrTimeoutWrite(value)
             /\ UNCHANGED <<cvars, fvars, mvars, lvars, avars, dvars, xvars>>
    \/ MgrTimeoutRead /\ UNCHANGED <<cvars, fvars, mvars, lvars, avars, dvars, xvars>>

ParamSpec == Init /\ [][ParamNext]_vars

\* MunirController
CmdNext ==
    \/ \E req \in Requests :
          CmdSet(req)
             /\ UNCHANGED <<cvars, fvars, mvars, lvars, avars, dvars, pvars>>
    \/ CmdStart /\ UNCHANGED <<cvars, fvars, mvars, lvars, avars, dvars, pvars>>
    \/ \E how \in CmdOutcomes :
          CmdEnd(how)
             /\ UNCHANGED <<cvars, fvars, mvars, lvars, avars, dvars, pvars>>

CmdSpec == Init /\ [][CmdNext]_vars

\* One OdinData instance, called directly
OdNext ==
    \/ OdConstruct /\ UNCHANGED <<cvars, fvars, lvars, avars, pvars, xvars>>
    \/ MgrMonitorEvent(1) /\ UNCHANGED <<cvars, fvars, lvars, avars, dvars, pvars, xvars>>
    \/ OdStopAcquisition /\ UNCHANGED <<cvars, fvars, lvars, avars, pvars, xvars>>
    \/ OdStartAcquisition /\ UNCHANGED <<cvars, fvars, lvars, avars, pvars, xvars>>
    \/ OdCreateAcquisition /\ UNCHANGED <<cvars, fvars, lvars, avars, pvars, xvars>>
    \/ OdGetStatus /\ UNCHANGED <<cvars, fvars, lvars, avars, pvars, xvars>>
    \/ OdStartLv /\ UNCHANGED <<cvars, fvars, lvars, avars, pvars, xvars>>

OdSpec == Init /\ [][OdNext]_vars

(***************************************************************************)
(* Properties of OdinData._send_receive, checked under Spec.               *)
(***************************************************************************)

\* C1: every non-failure result a request returns is a valid response that
\* carries the id of that request; a late reply to an earlier request is
\* never returned as the result of a later one.
C1_ResultCarriesOwnId ==
    (pc = "idle" /\ result # Empty) =>
        /\ outcome = "match"
        /\ result.valid
        /\ result.id = msg_id
        /\ result.id = sent[Len(sent)]

\* a late reply to an earlier request was received by a later call, which
\* returned its own reply
C1_Witness ==
    /\ pc = "idle"
    /\ outcome = "match"
    /\ Len(consumed) >= 2
    /\ consumed[1].valid
    /\ consumed[1].id < msg_id

\* C2: in a call that sent id n and returned a match, the responses received
\* before the match are valid responses with another id, all discarded; the
\* result is the first response with id n; nothing is received after it.
C2_FirstMatchReturned ==
    outcome = "match" =>
        /\ consumed # <<>>
        /\ result = consumed[Len(consumed)]
        /\ result.id = msg_id
        /\ \A i \in 1..(Len(consumed) - 1) :
              consumed[i].valid /\ consumed[i].id # msg_id
        /\ pc = "idle"

\* a stale response was discarded before the match and a response that
\* arrived behind the match is left unread
C2_Witness ==
    /\ outcome = "match"
    /\ Len(consumed) >= 2
    /\ sock # <<>>

\* C7: a call made while the channel is not connected returns the empty
\* response at once and makes no transport call: no send, no poll, no recv.
C7_DisconnectedShortCircuit ==
    [][(pc = "idle" /\ ~connection_status /\ ncalls' # ncalls) =>
          /\ result' = Empty
          /\ outcome' = "disconnected"
          /\ pc' = "idle"
          /\ sent' = sent
          /\ polls' = polls
          /\ recvs' = recvs
          /\ sock' = sock
          /\ msg_id' = msg_id]_vars

\* a call was short-circuited although unread responses were on the socket
C7_Witness ==
    /\ outcome = "disconnected"
    /\ msg_id > 0
    /\ sock # <<>>

\* C8: when no valid response with the matching id arrived within Timeout
\* ticks of the send, the call returns the empty response, and the request
\* was sent exactly once.
C8_NoMatchInTimeFails ==
    (pc = "idle" /\ outcome \in {"match", "invalid", "timeout"}
       /\ ~match_in_time) =>
        /\ result = Empty
        /\ Cardinality({i \in DOMAIN sent : sent[i] = msg_id}) = 1

\* C9: a call is over no later than one Timeout after its send, however
\* many stale responses arrive.
C9_OneTimeoutWindow ==
    pc = "poll" => elapsed <= Timeout

C11_OnlyMonitorEventsChangeFlag ==
    [][connection_status' # connection_status =>
          /\ last_event' # last_event
          /\ UNCHANGED <<msg_id, sock, pending, pc, waited, elapsed, result,
                         outcome, ncalls, sent, polls, recvs, consumed>>]_vars

C11_Witness ==
    /\ outcome = "timeout"
    /\ pc = "idle"
    /\ connection_status
    /\ last_event = "accepted"
    /\ ncalls >= 2

\* C12: the channel starts disconnected, and connection_status is true
\* exactly when a monitor event has been handled and the last one handled
\* was an accept.
C12_FlagIsLastEvent ==
    connection_status <=> (last_event = "accepted")

C12_Witness ==
    /\ last_event = "disconnected"
    /\ ~connection_status
    /\ Len(sent) > 0

\* C13: the ids of the requests sent are strictly increasing, the counter is
\* the id of the last request sent, and it never decreases.
C13_IdsStrictlyIncrease ==
    /\ \A i, j \in DOMAIN sent : i < j => sent[i] < sent[j]
    /\ msg_id = IF sent = <<>> THEN 0 ELSE sent[Len(sent)]
    /\ \A i \in DOMAIN sent : sent[i] > 0

C13_Witness ==
    /\ Len(sent) = MaxCalls
    /\ pc = "idle"

(***************************************************************************)
(* Properties of the OdinData methods, checked under OdSpec.               *)
(***************************************************************************)
ControlPrims == {"stop", "start", "create"}

\* C14: stop_acquisition, start_acquisition and create_acquisition report
\* failure whenever the worker answered one of their configure requests
\* with a nack.
C14_NackReportsFailure ==
    (/\ last_call.prim \in ControlPrims
     /\ \E i \in DOMAIN last_call.responses :
           last_call.responses[i].msg_type = "nack")
    => last_call.ret = "false"

\* C15: a call of a method built on set_config adds to the cached config
\* exactly the documents whose configure request was answered with an ack;
\* a request that was not sent, timed out, got an invalid response or got a
\* nack leaves the cached config as it was.
C15_MergedIffAck ==
    [][(od_ncalls' # od_ncalls /\ last_call'.prim \in ControlPrims) =>
          od_merged'[1] = od_merged[1] \cup
              {m_trace'[i].req : i \in
                  {j \in DOMAIN m_trace' :
                      last_call'.responses[j].msg_type = "ack"}}]_vars

C15_Witness ==
    /\ last_call.prim = "create"
    /\ Len(last_call.responses) = 2
    /\ last_call.responses[1].msg_type = "nack"
    /\ last_call.responses[2].msg_type = "ack"
    /\ od_merged[1] = {"acquisition_config"}

\* C16: get_status replaces the cached status with the params of the
\* response when the response has them, leaves the cache as it was when the
\* request failed (not connected, timeout, invalid response), and returns
\* the cache in both cases.
C16_StatusCache ==
    [][(od_ncalls' # od_ncalls /\ last_call'.prim = "status") =>
          LET response == last_call'.responses[1] IN
          /\ response.params # "absent" => od_status'[1] = response.params
          /\ response = EmptyAttrs => od_status'[1] = od_status[1]
          /\ last_call'.ret = od_status'[1]]_vars

C16_Witness ==
    /\ last_call.prim = "status"
    /\ last_call.responses = <<EmptyAttrs>>
    /\ last_call.ret = "writing"
    /\ od_conn[1]

\* C17: with an empty profile every control method returns failure and sends
\* nothing to the worker.
C17_EmptyProfileNoOp ==
    (profile = "empty" /\ last_call.prim \in ControlPrims) =>
        /\ last_call.ret = "false"
        /\ \A i \in DOMAIN m_trace : ~m_trace[i].sent

\* C25: create_acquisition sends the stop request before the acquisition
\* configuration, and when the stop failed (not sent, no valid response, or
\* answered with a nack) it returns false and sends nothing more.
C25_StopFirstOrNothing ==
    last_call.prim = "create" =>
        /\ m_trace[1].req = Doc("stop_config")
        /\ Len(m_trace) > 1 => m_trace[2].req = "acquisition_config"
        /\ last_call.responses[1].msg_type # "ack" =>
              /\ last_call.ret = "false"
              /\ Len(m_trace) = 1

\* C26: the document create_acquisition(path, id, frames) sends has the
\* plugin's frame count equal to frames, hdf.file.path equal to path,
\* hdf.frames equal to frames and hdf.acquisition_id equal to id, and every
\* other field as the profile was loaded.
C26_OverrideFields ==
    (last_call.prim = "create" /\ Len(m_trace) = 2) =>
        /\ Len(create_docs) = 1
        /\ LET doc == create_docs[1]
               loaded == ProfileAcquisitionConfig
           IN  /\ doc.plugin.rx_frames = create_args.frames
               /\ doc.hdf.file.path = create_args.path
               /\ doc.hdf.frames = create_args.frames
               /\ doc.hdf.acquisition_id = create_args.acquisition_id
               /\ DOMAIN doc = DOMAIN loaded
               /\ DOMAIN doc.plugin = DOMAIN loaded.plugin
               /\ DOMAIN doc.hdf = DOMAIN loaded.hdf
               /\ DOMAIN doc.hdf.file = DOMAIN loaded.hdf.file
               /\ doc.plugin.mode = loaded.plugin.mode
               /\ doc.hdf.file.extension = loaded.hdf.file.extension
               /\ doc.hdf.master = loaded.hdf.master

\* a second create_acquisition, after one with other arguments
C26_Witness ==
    /\ last_call.prim = "create"
    /\ Len(m_trace) = 2
    /\ od_ncalls = 2
    /\ create_args = Args("/data", "run1", 500)
    /\ create_docs = <<AcquisitionConfig(500, "/data", 500, "run1")>>
    /\ acq_config # ProfileAcquisitionConfig

\* C27: a loaded profile keeps exactly the sections and values it was
\* loaded with, whatever methods are called, apart from the four fields of
\* acquisition_config that create_acquisition sets: nothing is merged into
\* self.config and the rest of acquisition_config stays as loaded.
C27_ProfileReadOnly ==
    profile = "loaded" =>
        /\ od_merged[1] = {}
        /\ \E a \in CreateArgs \cup {Args("", "", 0)}, rx \in {0, 500, 1000} :
              acq_config =
                 AcquisitionConfig(rx, a.path, a.frames, a.acquisition_id)

\* C28: start_acquisition makes exactly one configure request, with the
\* profile's start_config section as its parameters, and no stop request
\* before it.
C28_StartSendsOnlyStart ==
    last_call.prim = "start" =>
        /\ Len(m_trace) = 1
        /\ profile = "loaded" => m_trace[1].req = "start_config"

C28_Witness ==
    /\ last_call.prim = "start"
    /\ profile = "loaded"
    /\ m_trace = <<[w |-> 1, req |-> "start_config", sent |-> TRUE]>>
    /\ last_call.ret = "true"

\* C29: with liveview enabled start_lv sends stop_config, arm_config and
\* lv_config in that order; a step that failed (not sent, no valid response,
\* or answered with a nack) is the last one made and the call returns false;
\* with liveview disabled nothing is sent.
C29_LiveviewSteps ==
    last_call.prim = "start_lv" =>
        IF ~lv THEN m_trace = <<>>
        ELSE /\ \A i \in DOMAIN m_trace :
                   m_trace[i].req =
                      <<Doc("stop_config"), LvDoc("arm_config"),
                        LvDoc("lv_config")>>[i]
             /\ \A i \in DOMAIN last_call.responses :
                   last_call.responses[i].msg_type # "ack" =>
                      /\ Len(m_trace) = i
                      /\ last_call.ret = "false"

(***************************************************************************)
(* Properties of MunirManager, checked under MgrSpec.                      *)
(***************************************************************************)
\* C18: execute_acquisition returns True exactly when create_acquisition
\* and start_acquisition both returned True on every instance.
C18_ExecuteIsConjunction ==
    (m_op = "execute" /\ m_phase = "idle") =>
        (m_result = "true" <=>
            \A w \in Workers : create_res[w] = "true" /\ start_res[w] = "true")

C18_Witness ==
    /\ m_op = "execute"
    /\ m_phase = "idle"
    /\ m_result = "false"
    /\ \A w \in Workers : create_res[w] = "true"
    /\ start_res[1] = "false"
    /\ \A w \in Workers \ {1} : start_res[w] = "true"

\* C19: when create_acquisition succeeded on one instance and failed on
\* another, execute_acquisition returns False, and the only requests the
\* call made on an instance whose create succeeded are the two of its
\* create_acquisition (stop_config, then acquisition_config): nothing is
\* sent to it afterwards.
C19_NoRollback ==
    (/\ m_op = "execute"
     /\ m_phase = "idle"
     /\ \E a, b \in Workers :
           create_res[a] = "true" /\ create_res[b] = "false")
    => /\ m_result = "false"
       /\ \A a \in Workers : create_res[a] = "true" =>
             LET idx == {i \in DOMAIN m_trace : m_trace[i].w = a} IN
             /\ Cardinality(idx) = 2
             /\ \E i, j \in idx :
                   /\ i < j
                   /\ m_trace[i].req = "stop_config"
                   /\ m_trace[j].req = "acquisition_config"

C19_Witness ==
    /\ m_op = "execute"
    /\ m_phase = "idle"
    /\ create_res[1] = "true"
    /\ create_res[2] = "false"
    /\ "acquisition_config" \in od_merged[1]
    /\ od_conn[2]

\* C20: stop_acquisition calls stop_acquisition on every instance in turn,
\* whatever the earlier ones returned (a stop that sent no request, its
\* channel being disconnected, returned False), then get_status on every
\* instance, and only then returns; it returns True exactly when every stop
\* returned True.
C20_StopAllThenRefresh ==
    (m_op = "stop" /\ m_phase = "idle") =>
        /\ Len(m_trace) = 2 * NumWorkers
        /\ \A w \in Workers :
              /\ m_trace[w].w = w
              /\ m_trace[w].req = Doc("stop_config")
              /\ m_trace[w].sent \/ stop_res[w] = "false"
              /\ m_trace[NumWorkers + w].w = w
              /\ m_trace[NumWorkers + w].req = "status"
              /\ mgr_fp_status[w] = od_status[w]
        /\ m_result = "true" <=> \A w \in Workers : stop_res[w] = "true"

C20_Witness ==
    /\ m_op = "stop"
    /\ m_phase = "idle"
    /\ stop_res[1] = "false"
    /\ \A w \in Workers \ {1} : stop_res[w] = "true" /\ m_trace[w].sent
    /\ m_result = "false"

\* C21: once MunirManager.stop_acquisition has returned, _is_executing()
\* is false.
C21_StopForcesIdle ==
    (m_op = "stop" /\ m_phase = "idle") => ~MunirManager_is_executing

\* C32: within one execute_acquisition call a start request is made only
\* when create_acquisition has returned True on every instance, and after
\* the acquisition_config request of every instance.
C32_StartAfterAllCreated ==
    m_op = "execute" =>
        \A i \in DOMAIN m_trace :
           m_trace[i].req = "start_config" =>
              /\ \A w \in Workers : create_res[w] = "true"
              /\ \A w \in Workers :
                    \E j \in 1..(i - 1) :
                       /\ m_trace[j].w = w
                       /\ m_trace[j].req = "acquisition_config"

\* a call that started the instances after it had created all of them
C32_Witness ==
    /\ m_op = "execute"
    /\ m_phase = "idle"
    /\ m_result = "true"
    /\ \A w \in Workers : create_res[w] = "true" /\ start_res[w] = "true"
    /\ m_trace[2 * NumWorkers + 1].req = "start_config"

\* C22: if from some moment on no worker is writing, then from some later
\* moment on _is_executing() is false.
C22_EventuallyIdle ==
    <>[](\A w \in Workers : ~w_writing[w]) => <>[](~MunirManager_is_executing)

(***************************************************************************)
(* Properties of MunirFpController, checked under FpSpec.                  *)
(***************************************************************************)

\* C3: a set() that writes execute=true while _is_executing() is true raises
\* MunirError to the caller, and starts no execute_acquisition.
C3_RejectedWhileExecuting ==
    [][(nsets' # nsets /\ wrote_execute' /\ _is_executing) =>
          /\ put_error' = "MunirError"
          /\ exec_calls' = exec_calls
          /\ active' = active
          /\ task' = task
          /\ do_execute' = do_execute]_vars

\* a trigger was rejected while a worker of an earlier acquisition writes
C3_Witness ==
    /\ put_error = "MunirError"
    /\ wrote_execute
    /\ _is_executing
    /\ exec_calls = 1
    /\ \E w \in Workers : writing[w]

\* C4: a set() that writes execute=true while _is_executing() is false
\* results in exactly one execute_acquisition call; a set() that writes
\* execute=true while the trigger of an earlier request is still set is
\* rejected.
C4_ExactlyOneExecution ==
    [][/\ (nsets' # nsets /\ wrote_execute' /\ ~_is_executing) =>
              exec_calls' = exec_calls + 1
       /\ (nsets' # nsets /\ wrote_execute' /\ do_execute) =>
              put_error' = "MunirError"]_vars

\* C5: at most one execute_acquisition call is active.
C5_OneActiveExecution ==
    active <= 1

\* the periodic status callback is due while execute_acquisition is at a
\* later configuration step, and waits
C5_Witness ==
    /\ active = 1
    /\ task = "exec"
    /\ step >= 2
    /\ timer_due

\* C6: an execute_acquisition starts only while no worker of the subsystem
\* is writing for an earlier acquisition.
C6_NoOverlappingAcquisitions ==
    [][(exec_calls' # exec_calls) => (\A w \in Workers : ~writing[w])]_vars

\* C33: whenever no set() call is in progress do_execute is false, also
\* after a set() call that raised.
C33_TriggerFalseBetweenCalls ==
    task = "none" => ~do_execute

\* C30 as stated: when execute_acquisition returns failure the trigger is
\* still set.
C30_TriggerKeptOnFailure ==
    [][(task = "exec" /\ task' = "none" /\ exec_result' = "false") =>
          do_execute']_vars

\* C30: set() clears the trigger before it calls execute_acquisition, so
\* when execute_acquisition returns, with success or with failure, the
\* trigger is not set.
C30_TriggerClearedAtDispatch ==
    [][/\ exec_calls' # exec_calls => ~do_execute'
       /\ (task = "exec" /\ task' = "none") => ~do_execute']_vars

\* an execute_acquisition has returned failure and the trigger is clear
C30_Witness ==
    /\ exec_calls = 1
    /\ task = "none"
    /\ exec_result = "false"
    /\ ~do_execute

\* configure messages of worker w that it has not processed, or whose
\* reply has not been read
ConfigurePending(w, q, c) ==
    \/ \E i \in DOMAIN q[w] : q[w][i].kind = "configure"
    \/ \E i \in DOMAIN c[w] : c[w][i].kind = "configure"

\* C37: execute_acquisition sends its four steps in order, each to every
\* worker before the next step begins; it returns True only after the
\* fourth step, and only when every worker has answered every configure
\* message of the call.
C37_FourStepsAllAnswered ==
    [][/\ (task = "exec" /\ task' = "exec" /\ step' # step) =>
              /\ step' = step + 1
              /\ widx = NumWorkers
              /\ widx' = 1
       /\ (task = "exec" /\ task' = "none" /\ exec_result' = "true") =>
              /\ step = NumSteps
              /\ widx = NumWorkers
              /\ \A w \in Workers : ~ConfigurePending(w, wq', chan')]_vars

\* C38: a reply that await_response accepts, for a configuration step or
\* for a status request, is the reply to the message just sent: it carries
\* that message's id.
C38_ReplyAnswersOwnRequest ==
    [][(/\ task \in {"exec", "status"}
        /\ chan[widx] # <<>>
        /\ chan'[widx] = Tail(chan[widx])) =>
          Head(chan[widx]).id = fp_msg_id]_vars

\* C23: a status refresh handles the slots one by one. Handling slot i
\* leaves every other slot as it was; slot i receives the status worker i
\* reported in answer to the status request of this refresh, and keeps its
\* previous snapshot when worker i has not answered that request.
C23_RefreshPerSlot ==
    [][(task = "status" /\ (task' # task \/ widx' # widx)) =>
          /\ \A w \in Workers \ {widx} : fp_status'[w] = fp_status[w]
          /\ LET answered == /\ chan[widx] # <<>>
                              /\ Head(chan[widx]).kind = "status"
                              /\ Head(chan[widx]).id = fp_msg_id
             IN  fp_status'[widx] = IF answered THEN Head(chan[widx]).params
                                    ELSE fp_status[widx]]_vars

(***************************************************************************)
(* Properties of the status aggregation, checked under AggSpec.            *)
(***************************************************************************)
\* the sum of hdf.frames_written over the snapshots of the endpoints in S
RECURSIVE SumOver(_)
SumOver(S) ==
    IF S = {} THEN 0
    ELSE LET x == CHOOSE y \in S : TRUE
         IN  agg_status[x].frames_written + SumOver(S \ {x})

\* C24: a read of executing is true exactly when some snapshot has hdf with
\* writing true, and a read of frames_written is the sum, over the snapshots
\* that have hdf with frames_written, of that counter.
C24_Aggregation ==
    agg_fresh =>
        /\ agg_executing <=>
              \E w \in Workers :
                 /\ agg_status[w].has_hdf
                 /\ agg_status[w].has_writing
                 /\ agg_status[w].writing
        /\ agg_frames =
              SumOver({w \in Workers : /\ agg_status[w].has_hdf
                                       /\ agg_status[w].has_frames})

C24_Witness ==
    /\ agg_fresh
    /\ agg_status[1] = StatusDoc(TRUE, TRUE, TRUE, TRUE, 10)
    /\ agg_status[2] = StatusDoc(TRUE, FALSE, FALSE, TRUE, 5)
    /\ agg_executing
    /\ agg_frames = 15

(***************************************************************************)
(* Properties of the parameter trees, checked under ParamSpec.             *)
(***************************************************************************)
\* C31: a set() that runs execute_acquisition runs it with the arguments as
\* that same request left them: the values of its 'args' key when it has
\* one, wherever the key stands in the request, and the values from before
\* the request otherwise.
C31_ArgsReadAtTrigger ==
    p_used # <<>> =>
        p_used[1] = acquisition_request(IF HasKey(p_req, "args") THEN NewArgs
                                        ELSE p_before.args)

\* the request writes execute before the arguments
C31_Witness ==
    /\ p_req.keys = <<"execute", "args">>
    /\ p_before.args = DefaultArgs
    /\ p_used = <<acquisition_request(NewArgs)>>

\* C34: a set() that was rejected because an acquisition is running leaves
\* the acquisition arguments and the timeout as they were before it.
C34_RejectedChangesNothing ==
    p_error = "MunirError" =>
        /\ p_args = p_before.args
        /\ p_timeout = p_before.timeout

\* C39: in MunirManager, a read of the timeout leaf after a write of v
\* returns v, and every OdinData instance's ctrl_timeout is v.
C39_TimeoutReadsBack ==
    mt_wrote # <<>> =>
        /\ mt_read # <<>> => mt_read = mt_wrote
        /\ \A w \in Workers : mt_od_timeout[w] = mt_wrote[1]

\* C40: in MunirFpController, once the timeout leaf has been written, an
\* await_response waits at most the timeout the leaf holds.
C40_TimeoutBoundsWait ==
    (p_written /\ p_wait # <<>>) => p_wait[1] <= p_timeout

(***************************************************************************)
(* Properties of MunirController, checked under CmdSpec.                   *)
(***************************************************************************)
\* C35: at most one command is queued or running at any time.
C35_OneCommandAtATime ==
    x_queued + (IF x_thread = "running" THEN 1 ELSE 0) <= 1

\* C36: every command execution that has ended, whatever its outcome, has
\* left the executing flag false, and a failure is recorded in the status
\* parameters.
C36_ExecutingClearedAtEnd ==
    /\ x_thread = "idle" => ~x_executing
    /\ (x_thread = "idle" /\ x_outcome \notin {"none", "exit_zero"}) =>
          (x_exception # "none" \/ x_return_code \notin {"none", "zero"})

====
